---- MODULE Spec2Model ----
(***************************************************************************)
(* Model of the two Salt modules of salt-saphana:                          *)
(*   salt/modules/crmshmod.py   execution module "crm" (cluster shell)     *)
(*   salt/states/saputilsmod.py state module "saputils" (SAR extraction)   *)
(*                                                                         *)
(* A shell command is the sequence of its blank-separated tokens: the      *)
(* code's '{cmd} -w {watchdog}'.format(...) appends the tokens "-w" and    *)
(* the formatted value.  Python values carry their type, so that           *)
(* truthiness, isinstance and str.format are computed as Python does.      *)
(***************************************************************************)
EXTENDS Integers, Sequences, FiniteSets, TLC

(***************************************************************************)
(* Bounds of the model.                                                    *)
(***************************************************************************)
\* operations called in one process lifetime
MaxCalls == 3
\* exit codes of the external tool are 0..MaxRetcode
MaxRetcode == 1

(***************************************************************************)
(* Python values: t is the type, i the numeric payload, s the text.        *)
(***************************************************************************)
None == [t |-> "none", i |-> 0, s |-> ""]
PyInt(n) == [t |-> "int", i |-> n, s |-> ""]
PyFloat(n) == [t |-> "float", i |-> n, s |-> ""]
PyBool(b) == [t |-> "bool", i |-> IF b THEN 1 ELSE 0, s |-> ""]
PyStr(x) == [t |-> "str", i |-> 0, s |-> x]
\* the key is absent from the __salt__ dictionary
Unset == [t |-> "unset", i |-> 0, s |-> ""]
\* the tuple (False, reason) a loader function returns to refuse loading
Refusal(reason) == [t |-> "refusal", i |-> 0, s |-> reason]

\* bool(v), as `if v:` evaluates it
Truthy(v) ==
    CASE v.t = "none" -> FALSE
      [] v.t = "unset" -> FALSE
      [] v.t = "str" -> v.s # ""
      [] OTHER -> v.i # 0

\* isinstance(v, int): bool is a subclass of int
IsInstanceInt(v) == v.t \in {"int", "bool"}

\* '{}'.format(v)
Format(v) ==
    CASE v.t = "str" -> v.s
      [] v.t = "int" -> ToString(v.i)
      [] v.t = "float" -> ToString(v.i) \o ".0"
      [] v.t = "bool" -> IF v.i = 1 THEN "True" ELSE "False"
      [] OTHER -> "None"

(***************************************************************************)
(* Module constants of crmshmod.py.                                        *)
(***************************************************************************)
virtualname == "crm"
CRM_COMMAND == "/usr/sbin/crm"
HA_INIT_COMMAND == "/usr/sbin/ha-cluster-init"
HA_JOIN_COMMAND == "/usr/sbin/ha-cluster-join"

NO_CRM_REASON ==
    "The crmsh execution module failed to load: the crm package is not available."
NO_HA_REASON ==
    "The crmsh execution module failed to load: the ha-cluster-init package is not available."
TIMEOUT_MSG == "timeout must be integer type"
INIT_WARNING == "The parameters name and watchdog are not considered!"
JOIN_WARNING == "The parameter watchdog is not considered!"

(***************************************************************************)
(* State.                                                                  *)
(*   loaded         "unloaded" before the loader called __virtual__, then  *)
(*                  "loaded" or "refused"                                  *)
(*   crmsh_version  __salt__['crmsh.version'], the generation flag         *)
(*   flagWrites     number of assignments to __salt__['crmsh.version']     *)
(*   last           the last call of the crm module and its outcome: the   *)
(*                  commands it handed to the host, the exit codes the     *)
(*                  host answered, what it returned or raised, what it     *)
(*                  logged at warning level                                *)
(*   calls, execs, invocationErrors                                        *)
(*                  cluster operations called, commands handed to          *)
(*                  __salt__['cmd.retcode'], SaltInvocationErrors raised   *)
(*   sar            the last sar_file_extracted call and its outcome: the  *)
(*                  calls it made to the delegate, the errors the delegate *)
(*                  raised, what it returned or raised                     *)
(*   extracts       calls of __salt__['saputils.extract_sapcar_file']      *)
(***************************************************************************)
VARIABLES loaded, crmsh_version, flagWrites, last, calls, execs,
          invocationErrors, sar, extracts

vars == <<loaded, crmsh_version, flagWrites, last, calls, execs,
          invocationErrors, sar, extracts>>

crmVars == <<loaded, crmsh_version, flagWrites, last, calls, execs,
             invocationErrors>>

Retcodes == 0..MaxRetcode

NoCall ==
    [op |-> "", args |-> <<>>, cmds |-> <<>>, answers |-> <<>>, ret |-> None,
     exc |-> "", warnings |-> <<>>]

NoSarCall ==
    [called |-> FALSE, args |-> <<>>, delegate |-> <<>>, raised |-> <<>>,
     ret |-> <<>>, exc |-> ""]

Init ==
    /\ loaded = "unloaded"
    /\ crmsh_version = Unset
    /\ flagWrites = 0
    /\ last = NoCall
    /\ calls = 0
    /\ execs = 0
    /\ invocationErrors = 0
    /\ sar = NoSarCall
    /\ extracts = 0

(***************************************************************************)
(* __virtual__ (crmshmod.py).  The host answers are its inputs:            *)
(*   crm  salt.utils.path.which(CRM_COMMAND) found the binary              *)
(*   cmp  __salt__['pkg.version_cmp'](version, CRM_NEW_VERSION): -1, 0, 1  *)
(*   ha   salt.utils.path.which(HA_INIT_COMMAND) found the binary          *)
(***************************************************************************)
\* mutant: the threshold version itself counts as the legacy generation
use_crm_above(cmp) == cmp > 0

use_crm(cmp) == cmp >= 0

__virtual__(crm, cmp, ha) ==
    /\ loaded = "unloaded"
    /\ LET args == [crm |-> crm, cmp |-> cmp, ha |-> ha]
       IN IF ~crm
          THEN /\ loaded' = "refused"
               /\ last' = [NoCall EXCEPT !.op = "__virtual__", !.args = args,
                                         !.ret = Refusal(NO_CRM_REASON)]
               /\ UNCHANGED <<crmsh_version, flagWrites>>
          ELSE IF ~use_crm(cmp) /\ ~ha
          THEN /\ loaded' = "refused"
               /\ last' = [NoCall EXCEPT !.op = "__virtual__", !.args = args,
                                         !.ret = Refusal(NO_HA_REASON)]
               /\ UNCHANGED <<crmsh_version, flagWrites>>
          ELSE /\ loaded' = "loaded"
               /\ crmsh_version' = PyBool(use_crm(cmp))
               /\ flagWrites' = flagWrites + 1
               /\ last' = [NoCall EXCEPT !.op = "__virtual__", !.args = args,
                                         !.ret = PyStr(virtualname)]
    /\ UNCHANGED <<calls, execs, invocationErrors, sar, extracts>>

(***************************************************************************)
(* __salt__['cmd.retcode'](cmd): the one place a command reaches the host. *)
(* The call `op` with arguments `args` hands `cmd` over, the host answers  *)
(* the exit code `rc`, and the call returns it.                            *)
(***************************************************************************)
\* mutant: a command that exits nonzero is run a second time
cmd_retcode_retry(op, args, cmd, warnings, rc) ==
    /\ last' = [op |-> op, args |-> args,
                cmds |-> IF rc = 0 THEN <<cmd>> ELSE <<cmd, cmd>>,
                answers |-> IF rc = 0 THEN <<rc>> ELSE <<rc, rc>>,
                ret |-> PyInt(rc), exc |-> "", warnings |-> warnings]
    /\ calls' = calls + 1
    /\ execs' = execs + (IF rc = 0 THEN 1 ELSE 2)
    /\ UNCHANGED <<loaded, crmsh_version, flagWrites, invocationErrors,
                   sar, extracts>>

cmd_retcode(op, args, cmd, warnings, rc) ==
    /\ last' = [op |-> op, args |-> args, cmds |-> <<cmd>>, answers |-> <<rc>>,
                ret |-> PyInt(rc), exc |-> "", warnings |-> warnings]
    /\ calls' = calls + 1
    /\ execs' = execs + 1
    /\ UNCHANGED <<loaded, crmsh_version, flagWrites, invocationErrors,
                   sar, extracts>>

\* a cluster operation can be called: the module is loaded
Callable == loaded = "loaded" /\ calls < MaxCalls

status(rc) ==
    /\ Callable
    /\ cmd_retcode("status", <<>>, <<CRM_COMMAND, "status">>, <<>>, rc)

cluster_status(rc) ==
    /\ Callable
    /\ cmd_retcode("cluster_status", <<>>,
                   <<CRM_COMMAND, "cluster", "status">>, <<>>, rc)

cluster_start(rc) ==
    /\ Callable
    /\ cmd_retcode("cluster_start", <<>>,
                   <<CRM_COMMAND, "cluster", "start">>, <<>>, rc)

cluster_stop(rc) ==
    /\ Callable
    /\ cmd_retcode("cluster_stop", <<>>,
                   <<CRM_COMMAND, "cluster", "stop">>, <<>>, rc)

cluster_run(cmd, rc) ==
    /\ Callable
    /\ cmd_retcode("cluster_run", [cmd |-> cmd],
                   <<CRM_COMMAND, "cluster", "run",
                     "\"" \o Format(cmd) \o "\"">>, <<>>, rc)

cluster_health(rc) ==
    /\ Callable
    /\ cmd_retcode("cluster_health", <<>>,
                   <<CRM_COMMAND, "cluster", "health">>, <<>>, rc)

wait_for_startup(timeout, rc) ==
    /\ Callable
    /\ LET args == [timeout |-> timeout]
           cmd == <<CRM_COMMAND, "cluster", "wait_for_startup">>
       IN IF Truthy(timeout)
          THEN IF ~IsInstanceInt(timeout)
               THEN /\ last' = [op |-> "wait_for_startup", args |-> args,
                                cmds |-> <<>>, answers |-> <<>>, ret |-> None,
                                exc |-> "SaltInvocationError: " \o TIMEOUT_MSG,
                                warnings |-> <<>>]
                    /\ calls' = calls + 1
                    /\ invocationErrors' = invocationErrors + 1
                    /\ UNCHANGED <<loaded, crmsh_version, flagWrites, execs,
                                   sar, extracts>>
               ELSE cmd_retcode("wait_for_startup", args,
                                Append(cmd, Format(timeout)), <<>>, rc)
          ELSE cmd_retcode("wait_for_startup", args, cmd, <<>>, rc)

(***************************************************************************)
(* The command builders.  Each is the command its function hands to        *)
(* __salt__['cmd.retcode'], built flag by flag as the code builds it.      *)
(***************************************************************************)
\* mutant: the interface is appended before the watchdog
_crm_init_swapped(name, watchdog, interface, unicast, admin_ip, sbd, sbd_dev, quiet) ==
    LET c0 == <<CRM_COMMAND, "cluster", "init", "-y", "-n", Format(name)>>
        c1 == IF Truthy(interface) THEN c0 \o <<"-i", Format(interface)>> ELSE c0
        c2 == IF Truthy(watchdog) THEN c1 \o <<"-w", Format(watchdog)>> ELSE c1
        c3 == IF Truthy(unicast) THEN Append(c2, "-u") ELSE c2
        c4 == IF Truthy(admin_ip) THEN c3 \o <<"-A", Format(admin_ip)>> ELSE c3
        c5 == IF Truthy(sbd) THEN Append(c4, "--enable-sbd") ELSE c4
        c6 == IF Truthy(sbd) /\ Truthy(sbd_dev)
              THEN c5 \o <<"-s", Format(sbd_dev)>> ELSE c5
    IN IF Truthy(quiet) THEN Append(c6, "-q") ELSE c6

_crm_init(name, watchdog, interface, unicast, admin_ip, sbd, sbd_dev, quiet) ==
    LET c0 == <<CRM_COMMAND, "cluster", "init", "-y", "-n", Format(name)>>
        c1 == IF Truthy(watchdog) THEN c0 \o <<"-w", Format(watchdog)>> ELSE c0
        c2 == IF Truthy(interface) THEN c1 \o <<"-i", Format(interface)>> ELSE c1
        c3 == IF Truthy(unicast) THEN Append(c2, "-u") ELSE c2
        c4 == IF Truthy(admin_ip) THEN c3 \o <<"-A", Format(admin_ip)>> ELSE c3
        c5 == IF Truthy(sbd) THEN Append(c4, "--enable-sbd") ELSE c4
        c6 == IF Truthy(sbd) /\ Truthy(sbd_dev)
              THEN c5 \o <<"-s", Format(sbd_dev)>> ELSE c5
    IN IF Truthy(quiet) THEN Append(c6, "-q") ELSE c6

\* mutant: the test of sbd_dev is not nested in the test of sbd
_ha_cluster_init_unnested(interface, unicast, admin_ip, sbd, sbd_dev, quiet) ==
    LET c0 == <<HA_INIT_COMMAND, "-y">>
        c1 == IF Truthy(interface) THEN c0 \o <<"-i", Format(interface)>> ELSE c0
        c2 == IF Truthy(unicast) THEN Append(c1, "-u") ELSE c1
        c3 == IF Truthy(admin_ip) THEN c2 \o <<"-A", Format(admin_ip)>> ELSE c2
        c4 == IF Truthy(sbd) THEN Append(c3, "-S") ELSE c3
        c5 == IF Truthy(sbd_dev) THEN c4 \o <<"-s", Format(sbd_dev)>> ELSE c4
    IN IF Truthy(quiet) THEN Append(c5, "-q") ELSE c5

_ha_cluster_init(interface, unicast, admin_ip, sbd, sbd_dev, quiet) ==
    LET c0 == <<HA_INIT_COMMAND, "-y">>
        c1 == IF Truthy(interface) THEN c0 \o <<"-i", Format(interface)>> ELSE c0
        c2 == IF Truthy(unicast) THEN Append(c1, "-u") ELSE c1
        c3 == IF Truthy(admin_ip) THEN c2 \o <<"-A", Format(admin_ip)>> ELSE c2
        c4 == IF Truthy(sbd) THEN Append(c3, "-S") ELSE c3
        c5 == IF Truthy(sbd) /\ Truthy(sbd_dev)
              THEN c4 \o <<"-s", Format(sbd_dev)>> ELSE c4
    IN IF Truthy(quiet) THEN Append(c5, "-q") ELSE c5

\* mutant: the watchdog is not appended
_crm_join_no_watchdog(host, watchdog, interface, quiet) ==
    LET c0 == <<CRM_COMMAND, "cluster", "join", "-y", "-c", Format(host)>>
        c1 == IF Truthy(interface) THEN c0 \o <<"-i", Format(interface)>> ELSE c0
    IN IF Truthy(quiet) THEN Append(c1, "-q") ELSE c1

_crm_join(host, watchdog, interface, quiet) ==
    LET c0 == <<CRM_COMMAND, "cluster", "join", "-y", "-c", Format(host)>>
        c1 == IF Truthy(watchdog) THEN c0 \o <<"-w", Format(watchdog)>> ELSE c0
        c2 == IF Truthy(interface) THEN c1 \o <<"-i", Format(interface)>> ELSE c1
    IN IF Truthy(quiet) THEN Append(c2, "-q") ELSE c2

_ha_cluster_join(host, interface, quiet) ==
    LET c0 == <<HA_JOIN_COMMAND, "-y", "-c", Format(host)>>
        c1 == IF Truthy(interface) THEN c0 \o <<"-i", Format(interface)>> ELSE c0
    IN IF Truthy(quiet) THEN Append(c1, "-q") ELSE c1

(***************************************************************************)
(* cluster_init and cluster_join: the dispatch on the generation flag.     *)
(***************************************************************************)
\* mutant: the test of the generation flag is inverted
cluster_init_inverted(name, watchdog, interface, unicast, admin_ip, sbd, sbd_dev, quiet, rc) ==
    /\ Callable
    /\ LET args == [name |-> name, watchdog |-> watchdog,
                    interface |-> interface, unicast |-> unicast,
                    admin_ip |-> admin_ip, sbd |-> sbd, sbd_dev |-> sbd_dev,
                    quiet |-> quiet]
       IN IF ~Truthy(crmsh_version)
          THEN cmd_retcode("cluster_init", args,
                           _crm_init(name, watchdog, interface, unicast,
                                     admin_ip, sbd, sbd_dev, quiet),
                           <<>>, rc)
          ELSE cmd_retcode("cluster_init", args,
                           _ha_cluster_init(interface, unicast, admin_ip, sbd,
                                            sbd_dev, quiet),
                           <<INIT_WARNING>>, rc)

cluster_init(name, watchdog, interface, unicast, admin_ip, sbd, sbd_dev, quiet, rc) ==
    /\ Callable
    /\ LET args == [name |-> name, watchdog |-> watchdog,
                    interface |-> interface, unicast |-> unicast,
                    admin_ip |-> admin_ip, sbd |-> sbd, sbd_dev |-> sbd_dev,
                    quiet |-> quiet]
       IN IF Truthy(crmsh_version)
          THEN cmd_retcode("cluster_init", args,
                           _crm_init(name, watchdog, interface, unicast,
                                     admin_ip, sbd, sbd_dev, quiet),
                           <<>>, rc)
          ELSE cmd_retcode("cluster_init", args,
                           _ha_cluster_init(interface, unicast, admin_ip, sbd,
                                            sbd_dev, quiet),
                           <<INIT_WARNING>>, rc)

\* mutant: the legacy path stores the generation it found in the flag
cluster_join_stores_flag(host, watchdog, interface, quiet, rc) ==
    /\ Callable
    /\ LET args == [host |-> host, watchdog |-> watchdog,
                    interface |-> interface, quiet |-> quiet]
       IN IF Truthy(crmsh_version)
          THEN cmd_retcode("cluster_join", args,
                           _crm_join(host, watchdog, interface, quiet),
                           <<>>, rc)
          ELSE /\ last' = [op |-> "cluster_join", args |-> args,
                           cmds |-> <<_ha_cluster_join(host, interface, quiet)>>,
                           answers |-> <<rc>>, ret |-> PyInt(rc), exc |-> "",
                           warnings |-> <<JOIN_WARNING>>]
               /\ crmsh_version' = PyBool(FALSE)
               /\ flagWrites' = flagWrites + 1
               /\ calls' = calls + 1
               /\ execs' = execs + 1
               /\ UNCHANGED <<loaded, invocationErrors, sar, extracts>>

cluster_join(host, watchdog, interface, quiet, rc) ==
    /\ Callable
    /\ LET args == [host |-> host, watchdog |-> watchdog,
                    interface |-> interface, quiet |-> quiet]
       IN IF Truthy(crmsh_version)
          THEN cmd_retcode("cluster_join", args,
                           _crm_join(host, watchdog, interface, quiet),
                           <<>>, rc)
          ELSE cmd_retcode("cluster_join", args,
                           _ha_cluster_join(host, interface, quiet),
                           <<JOIN_WARNING>>, rc)

cluster_remove(host, force, quiet, rc) ==
    /\ Callable
    /\ LET c0 == <<CRM_COMMAND, "cluster", "remove", "-y", "-c", Format(host)>>
           c1 == IF Truthy(force) THEN Append(c0, "--force") ELSE c0
           c2 == IF Truthy(quiet) THEN Append(c1, "-q") ELSE c1
       IN cmd_retcode("cluster_remove",
                      [host |-> host, force |-> force, quiet |-> quiet],
                      c2, <<>>, rc)

configure_load(method, url, is_xml, rc) ==
    /\ Callable
    /\ LET xml == IF Truthy(is_xml) THEN <<"xml">> ELSE <<>>
       IN cmd_retcode("configure_load",
                      [method |-> method, url |-> url, is_xml |-> is_xml],
                      <<CRM_COMMAND, "configure", "load">> \o xml
                          \o <<Format(method), Format(url)>>,
                      <<>>, rc)

(***************************************************************************)
(* The values a caller passes.  Every optional parameter takes a falsy and *)
(* a truthy value; the values of different parameters are distinct texts,  *)
(* none of them a flag of the tools.                                       *)
(***************************************************************************)
Timeouts ==
    {None, PyInt(0), PyInt(30), PyBool(TRUE), PyStr(""), PyStr("x"),
     PyFloat(0), PyFloat(2)}
ShellStatements == {PyStr("pwd"), PyStr("rm -f x")}
Names == {PyStr("hacluster"), PyStr("x")}
Hosts == {PyStr("192.168.1.41"), PyStr("node1")}
Watchdogs == {None, PyStr(""), PyStr("/dev/watchdog")}
InitWatchdogs == {None, PyStr("/dev/watchdog")}
Interfaces == {PyStr(""), PyStr("eth0")}
Switches == {PyBool(FALSE), PyBool(TRUE)}
OptSwitches == {None, PyBool(TRUE)}
AdminIps == {None, PyStr("10.0.0.5")}
SbdDevs == {None, PyStr("/dev/sdb")}
Methods == {PyStr("update"), PyStr("replace")}
Urls == {PyStr("file.conf")}
XmlSwitches == {None, PyBool(FALSE), PyBool(TRUE)}

Next ==
    \/ \E crm \in BOOLEAN, cmp \in {-1, 0, 1}, ha \in BOOLEAN :
          __virtual__(crm, cmp, ha)
    \/ \E rc \in Retcodes : status(rc)
    \/ \E rc \in Retcodes : cluster_status(rc)
    \/ \E rc \in Retcodes : cluster_start(rc)
    \/ \E rc \in Retcodes : cluster_stop(rc)
    \/ \E c \in ShellStatements, rc \in Retcodes : cluster_run(c, rc)
    \/ \E rc \in Retcodes : cluster_health(rc)
    \/ \E t \in Timeouts, rc \in Retcodes : wait_for_startup(t, rc)
    \/ \E name \in Names, watchdog \in InitWatchdogs, interface \in Interfaces,
          unicast \in Switches, admin_ip \in AdminIps, sbd \in OptSwitches,
          sbd_dev \in SbdDevs, quiet \in OptSwitches, rc \in Retcodes :
          cluster_init(name, watchdog, interface, unicast, admin_ip, sbd,
                       sbd_dev, quiet, rc)
    \/ \E host \in Hosts, watchdog \in Watchdogs, interface \in Interfaces,
          quiet \in OptSwitches, rc \in Retcodes :
          cluster_join(host, watchdog, interface, quiet, rc)
    \/ \E host \in Hosts, force \in OptSwitches, quiet \in Switches,
          rc \in Retcodes :
          cluster_remove(host, force, quiet, rc)
    \/ \E method \in Methods, url \in Urls, is_xml \in XmlSwitches,
          rc \in Retcodes :
          configure_load(method, url, is_xml, rc)

(***************************************************************************)
(* sar_file_extracted (saputilsmod.py).  A path is the sequence of its     *)
(* components, its text their join with "/".                               *)
(***************************************************************************)
RECURSIVE PathText(_)
PathText(p) ==
    IF p = <<>> THEN ""
    ELSE IF Len(p) = 1 THEN p[1]
    ELSE p[1] \o "/" \o PathText(Tail(p))

\* os.path.dirname of the path with components p
dirname(p) == IF p = <<>> THEN "" ELSE PathText(SubSeq(p, 1, Len(p) - 1))

\* six.text_type(err)
text_type(err) == err.message

\* ret as initialised
sar_ret(sar_file) ==
    [name |-> PathText(sar_file), changes |-> <<>>, result |-> PyBool(FALSE),
     comment |-> ""]

\* mutant: the dry run reports the directory the extraction would use
sar_test_ret_effective(sar_file, output_dir) ==
    [sar_ret(sar_file) EXCEPT
        !.result = None,
        !.comment = PathText(sar_file) \o " would be extracted",
        !.changes = [output_dir |-> IF Truthy(output_dir) THEN output_dir
                                    ELSE PyStr(dirname(sar_file))]]

\* ret of the dry run: __opts__['test'] is set
sar_test_ret(sar_file, output_dir) ==
    [sar_ret(sar_file) EXCEPT
        !.result = None,
        !.comment = PathText(sar_file) \o " would be extracted",
        !.changes = [output_dir |-> output_dir]]

\* ret after the delegate returned
sar_extracted_ret(sar_file, output_dir) ==
    [sar_ret(sar_file) EXCEPT
        !.changes = [output_dir |-> IF Truthy(output_dir) THEN output_dir
                                    ELSE PyStr(dirname(sar_file))],
        !.comment = PathText(sar_file) \o " file extracted",
        !.result = PyBool(TRUE)]

\* mutant: the output directory is recorded before the delegate is called
sar_failed_ret_changed(sar_file, err) ==
    [sar_ret(sar_file) EXCEPT !.comment = text_type(err),
                              !.changes = [output_dir |-> PyStr(dirname(sar_file))]]

\* ret after the delegate raised the CommandExecutionError err
sar_failed_ret(sar_file, err) ==
    [sar_ret(sar_file) EXCEPT !.comment = text_type(err)]

\* test is __opts__['test']; outcome is what the delegate
\* __salt__['saputils.extract_sapcar_file'] does when it is called: it returns,
\* or it raises a CommandExecutionError
sar_file_extracted(test, name, sapcar_exe, sar_file, output_dir, options, outcome) ==
    /\ extracts < MaxCalls
    /\ LET args == [test |-> test, name |-> name, sapcar_exe |-> sapcar_exe,
                    sar_file |-> sar_file, output_dir |-> output_dir,
                    options |-> options]
           kwargs == [sapcar_exe |-> sapcar_exe,
                      sar_file |-> PathText(sar_file),
                      output_dir |-> output_dir, options |-> options]
       IN IF test
          THEN /\ sar' = [called |-> TRUE, args |-> args, delegate |-> <<>>,
                          raised |-> <<>>,
                          ret |-> sar_test_ret(sar_file, output_dir), exc |-> ""]
               /\ UNCHANGED extracts
          ELSE /\ extracts' = extracts + 1
               /\ IF outcome.raises
                  THEN sar' = [called |-> TRUE, args |-> args,
                               delegate |-> <<kwargs>>,
                               raised |-> <<outcome.err>>,
                               ret |-> sar_failed_ret(sar_file, outcome.err),
                               exc |-> ""]
                  ELSE sar' = [called |-> TRUE, args |-> args,
                               delegate |-> <<kwargs>>, raised |-> <<>>,
                               ret |-> sar_extracted_ret(sar_file, output_dir),
                               exc |-> ""]
    /\ UNCHANGED crmVars

CommandExecutionError(message) ==
    [kind |-> "CommandExecutionError", message |-> message]

ErrorTexts == {"SAPCAR file not found", "Error running SAPCAR command"}
DelegateOutcomes ==
    {[raises |-> FALSE, err |-> CommandExecutionError("")]}
        \cup {[raises |-> TRUE, err |-> CommandExecutionError(m)] : m \in ErrorTexts}
SarFiles == {<<"home", "sapuser", "saprouter_600-80003478.sar">>, <<"IMDB.SAR">>}
OutputDirs == {None, PyStr(""), PyStr("home/sapuser/saprouter_inst")}
SapcarExes == {PyStr("./SAPCAR.exe")}
SarOptions == {None, PyStr("-manifest SIGNATURE.SMF")}
StateNames == {PyStr("extract_sap_car_file")}

NextSar ==
    \E test \in BOOLEAN, name \in StateNames, sapcar_exe \in SapcarExes,
       sar_file \in SarFiles, output_dir \in OutputDirs, options \in SarOptions,
       outcome \in DelegateOutcomes :
       sar_file_extracted(test, name, sapcar_exe, sar_file, output_dir,
                          options, outcome)

\* the crm execution module
Spec == Init /\ [][Next]_vars

\* the saputils state module
SpecSar == Init /\ [][NextSar]_vars

(***************************************************************************)
(* Properties.                                                             *)
(***************************************************************************)
\* the tokens of a command
Tokens(cmd) == {cmd[k] : k \in DOMAIN cmd}

\* the flag followed by the value occurs in the command
HasArg(cmd, flag, value) ==
    \E k \in 1..(Len(cmd) - 1) : cmd[k] = flag /\ cmd[k + 1] = value

\* the one command the last call executed
LastCmd == last.cmds[1]

\* the last call executed one command and returned
Executed == Len(last.cmds) = 1 /\ last.exc = ""

C2_FlagWrittenOnce ==
    [][loaded = "loaded" =>
          /\ crmsh_version' = crmsh_version
          /\ flagWrites' = flagWrites
          /\ (last'.op \in {"cluster_init", "cluster_join"} =>
                 (last'.cmds[1][1] = CRM_COMMAND <=> Truthy(crmsh_version)))]_vars

\* C2 witness: a second call, a cluster_join on the legacy path, after one
\* write of the flag
C2_Witness ==
    /\ calls >= 2
    /\ last.op = "cluster_join"
    /\ LastCmd[1] = HA_JOIN_COMMAND
    /\ crmsh_version = PyBool(FALSE)
    /\ flagWrites = 1

\* C3, as claimed: a supplied timeout that is not an integer raises an
\* invocation error and no command is executed; a supplied integer timeout is
\* appended to the wait subcommand as its last token; with no timeout the
\* bare wait subcommand is executed.
C3_TimeoutChecked ==
    last.op = "wait_for_startup" =>
        LET t == last.args.timeout
            wait == <<CRM_COMMAND, "cluster", "wait_for_startup">>
        IN /\ (t # None /\ ~IsInstanceInt(t) =>
                  /\ last.exc # ""
                  /\ last.cmds = <<>>)
           /\ (t # None /\ IsInstanceInt(t) =>
                  /\ last.exc = ""
                  /\ last.cmds = << Append(wait, Format(t)) >>)
           /\ (t = None =>
                  /\ last.exc = ""
                  /\ last.cmds = << wait >>)

\* C4: with the flag true cluster_init executes `crm cluster init -y -n
\* <name>` and no token is the legacy init binary; with the flag false it
\* executes the legacy init binary with no -n, no name, no -w and no watchdog
\* value among the tokens, logs a warning and returns the exit code.
C4_InitDispatch ==
    last.op = "cluster_init" =>
        /\ Executed
        /\ IF Truthy(crmsh_version)
           THEN /\ Len(LastCmd) >= 6
                /\ SubSeq(LastCmd, 1, 6) =
                      <<CRM_COMMAND, "cluster", "init", "-y", "-n",
                        Format(last.args.name)>>
                /\ HA_INIT_COMMAND \notin Tokens(LastCmd)
           ELSE /\ LastCmd[1] = HA_INIT_COMMAND
                /\ "-n" \notin Tokens(LastCmd)
                /\ Format(last.args.name) \notin Tokens(LastCmd)
                /\ "-w" \notin Tokens(LastCmd)
                /\ (last.args.watchdog # None =>
                       Format(last.args.watchdog) \notin Tokens(LastCmd))
                /\ Len(last.warnings) = 1
                /\ last.ret = PyInt(last.answers[1])

\* C4 witness: a legacy cluster_init called with a watchdog
C4_Witness ==
    /\ last.op = "cluster_init"
    /\ ~Truthy(crmsh_version)
    /\ Truthy(last.args.watchdog)
    /\ LastCmd[1] = HA_INIT_COMMAND

Valued(flag, v) == IF Truthy(v) THEN <<flag, Format(v)>> ELSE <<>>
\* the token a switch contributes when it is truthy
Switch(flag, v) == IF Truthy(v) THEN <<flag>> ELSE <<>>

\* C6: the command of the new-generation init is `crm cluster init -y -n
\* <name>` followed by the flags of exactly the truthy parameters in the
\* order watchdog, interface, unicast, admin IP, sbd (with -s <device> when a
\* device is given), quiet.
C6_InitFlagOrder ==
    last.op = "cluster_init" /\ Truthy(crmsh_version) =>
        LET a == last.args
        IN /\ Executed
           /\ LastCmd =
                 <<CRM_COMMAND, "cluster", "init", "-y", "-n", Format(a.name)>>
                 \o Valued("-w", a.watchdog)
                 \o Valued("-i", a.interface)
                 \o Switch("-u", a.unicast)
                 \o Valued("-A", a.admin_ip)
                 \o (IF Truthy(a.sbd)
                     THEN <<"--enable-sbd">> \o Valued("-s", a.sbd_dev)
                     ELSE <<>>)
                 \o Switch("-q", a.quiet)

\* C6 witness: a new-generation cluster_init with every parameter truthy
C6_Witness ==
    /\ last.op = "cluster_init"
    /\ Truthy(crmsh_version)
    /\ \A f \in {"watchdog", "interface", "unicast", "admin_ip", "sbd",
                 "sbd_dev", "quiet"} : Truthy(last.args[f])
    /\ Len(LastCmd) = 17

\* C7: on both paths of cluster_init, when sbd is falsy the command has no
\* -s argument and no sbd enablement flag, whatever sbd_dev is.
C7_SbdDevNeedsSbd ==
    last.op = "cluster_init" /\ ~Truthy(last.args.sbd) =>
        /\ Executed
        /\ Tokens(LastCmd) \cap {"-s", "--enable-sbd", "-S"} = {}
        /\ (last.args.sbd_dev # None =>
               Format(last.args.sbd_dev) \notin Tokens(LastCmd))

\* C7 witness: a legacy cluster_init with a device and sbd not set
C7_Witness ==
    /\ last.op = "cluster_init"
    /\ ~Truthy(crmsh_version)
    /\ ~Truthy(last.args.sbd)
    /\ Truthy(last.args.sbd_dev)
    /\ Executed

\* C8: a dry run of sar_file_extracted does not call the extraction delegate
\* and returns result None, the output_dir it was given (None included) in
\* changes, and the comment that the file would be extracted.
C8_DryRun ==
    sar.called /\ sar.args.test =>
        /\ sar.delegate = <<>>
        /\ sar.exc = ""
        /\ sar.ret.result = None
        /\ DOMAIN sar.ret.changes = {"output_dir"}
        /\ sar.ret.changes.output_dir = sar.args.output_dir
        /\ sar.ret.comment = PathText(sar.args.sar_file) \o " would be extracted"

\* C8 witness: a dry run without output_dir, after an extraction was run
C8_Witness ==
    /\ sar.called
    /\ sar.args.test
    /\ sar.args.output_dir = None
    /\ extracts >= 1

ClusterOperations ==
    {"status", "cluster_status", "cluster_start", "cluster_stop",
     "cluster_run", "cluster_health", "wait_for_startup", "cluster_init",
     "cluster_join", "cluster_remove", "configure_load"}

\* C10: a cluster operation that raises no invocation error hands one
\* command to the host and returns the exit code the host answered, zero or
\* not; one that raises hands none; and the commands executed are as many as
\* the calls that raised no invocation error.
C10_OneCommandPerCall ==
    /\ execs + invocationErrors = calls
    /\ (last.op \in ClusterOperations =>
           IF last.exc = ""
           THEN /\ Len(last.cmds) = 1
                /\ Len(last.answers) = 1
                /\ last.ret = PyInt(last.answers[1])
           ELSE /\ last.cmds = <<>>
                /\ last.ret = None)

\* C10 witness: a call returned a nonzero exit code after another call
\* raised an invocation error
C10_Witness ==
    /\ last.op \in ClusterOperations
    /\ last.exc = ""
    /\ last.ret = PyInt(1)
    /\ invocationErrors >= 1
    /\ execs >= 1
====
